---- MODULE Spec2Model ----
(***************************************************************************)
(* A model of fix_ics_timezone.py: the line-oriented repair of the         *)
(* timezone metadata of an iCalendar feed.                                 *)
(*                                                                         *)
(* Text is modelled character by character: a Python str is a sequence of  *)
(* one-character strings, so that prefix tests, substring tests, the       *)
(* regular expressions, strptime and strftime are computed as the code     *)
(* computes them.  A call that raises is modelled by an outcome record      *)
(* whose exc field names the exception.                                    *)
(***************************************************************************)
EXTENDS Integers, Sequences, FiniteSets, TLC

VARIABLES
    pc,          \* the position of the program
    arg,         \* the argument of the function being called
    ret,         \* the outcome of the last call: [exc, val, hours]
    text,        \* main: r.text, then raw
    lines,       \* main: lines, then fixed; the augmenter's line list
    final_text,  \* main: final_text
    run,         \* how many times the pipeline (or the augmenter) has run
    prev         \* the result of the previous run

vars == <<pc, arg, ret, text, lines, final_text, run, prev>>

-----------------------------------------------------------------------------
(* Bounds of the model.                                                    *)

\* The years of the calendar checks are 2026 - YearsBack .. 2026, and 9999.
YearsBack == 2
\* The longest document, in lines, and the number of runs over one document.
MaxDocLines == 2
MaxRuns == 2

-----------------------------------------------------------------------------
(* Characters and the str methods the program uses.                        *)

LF == "\n"
CR == "\r"
TAB == "\t"
\* The single code point U+FEFF.
BOM == "BOM"

Digits == <<"0","1","2","3","4","5","6","7","8","9">>
LowerChars == <<"a","b","c","d","e","f","g","h","i","j","k","l","m",
                "n","o","p","q","r","s","t","u","v","w","x","y","z">>
UpperChars == <<"A","B","C","D","E","F","G","H","I","J","K","L","M",
                "N","O","P","Q","R","S","T","U","V","W","X","Y","Z">>

IsDigit(c) == \E i \in 1..10 : Digits[i] = c
DigitVal(c) == (CHOOSE i \in 1..10 : Digits[i] = c) - 1
IsSpace(c) == c \in {" ", TAB, LF, CR}

\* str.upper, one character
UpperChar(c) ==
    IF \E i \in 1..26 : LowerChars[i] = c
    THEN UpperChars[CHOOSE i \in 1..26 : LowerChars[i] = c]
    ELSE c

\* str.upper
upper(s) == [i \in 1..Len(s) |-> UpperChar(s[i])]

\* str.startswith
startswith(s, p) == Len(s) >= Len(p) /\ SubSeq(s, 1, Len(p)) = p

\* str.endswith
endswith(s, p) == Len(s) >= Len(p) /\ SubSeq(s, Len(s) - Len(p) + 1, Len(s)) = p

\* p in s
contains(s, p) == \E i \in 1..(Len(s) - Len(p) + 1) : SubSeq(s, i, i + Len(p) - 1) = p

\* str.lstrip(chars)
RECURSIVE lstrip(_, _)
lstrip(s, chars) ==
    IF s # <<>> /\ Head(s) \in chars THEN lstrip(Tail(s), chars) ELSE s

\* str.rstrip()
RECURSIVE rstrip(_)
rstrip(s) ==
    IF s # <<>> /\ IsSpace(s[Len(s)]) THEN rstrip(SubSeq(s, 1, Len(s) - 1)) ELSE s

\* str.strip()
strip(s) == rstrip(lstrip(s, {" ", TAB, LF, CR}))

\* sep.join(list)
RECURSIVE join(_, _)
join(sep, list) ==
    IF list = <<>> THEN <<>>
    ELSE IF Len(list) = 1 THEN list[1]
    ELSE list[1] \o sep \o join(sep, Tail(list))

\* The indices in S, a subset of 1..n, in order
Indices(n, S) == SelectSeq([i \in 1..n |-> i], LAMBDA i : i \in S)

\* str.splitlines: a line ends at "\r\n", "\n" or "\r"; the last line needs no
\* terminator, and a terminator at the end opens no empty line.  A "\r" that a
\* "\n" follows is always the first half of a "\r\n".
splitlines(s) ==
    LET n == Len(s)
        EndsBreak(i) == s[i] = LF \/ (s[i] = CR /\ ~(i < n /\ s[i + 1] = LF))
        ends == Indices(n, {i \in 1..n : EndsBreak(i)})
        BreakStart(e) == IF s[e] = LF /\ e > 1 /\ s[e - 1] = CR THEN e - 1 ELSE e
        LineStart(k) == IF k = 1 THEN 1 ELSE ends[k - 1] + 1
        whole == [k \in 1..Len(ends) |-> SubSeq(s, LineStart(k), BreakStart(ends[k]) - 1)]
        last == LineStart(Len(ends) + 1)
    IN IF last <= n THEN Append(whole, SubSeq(s, last, n)) ELSE whole

-----------------------------------------------------------------------------
(* The constants of the program.                                           *)

TZID == <<"E","u","r","o","p","e","/","A","m","s","t","e","r","d","a","m">>

VTIMEZONE_BLOCK ==
    <<"B","E","G","I","N",":","V","T","I","M","E","Z","O","N","E">> \o <<LF>> \o
    <<"T","Z","I","D",":">> \o TZID \o <<LF>> \o
    <<"B","E","G","I","N",":","S","T","A","N","D","A","R","D">> \o <<LF>> \o
    <<"D","T","S","T","A","R","T",":","1","9","7","0","1","0","2","5","T","0","3","0","0","0","0">> \o <<LF>> \o
    <<"T","Z","O","F","F","S","E","T","F","R","O","M",":","+","0","2","0","0">> \o <<LF>> \o
    <<"T","Z","O","F","F","S","E","T","T","O",":","+","0","1","0","0">> \o <<LF>> \o
    <<"T","Z","N","A","M","E",":","C","E","T">> \o <<LF>> \o
    <<"E","N","D",":","S","T","A","N","D","A","R","D">> \o <<LF>> \o
    <<"B","E","G","I","N",":","D","A","Y","L","I","G","H","T">> \o <<LF>> \o
    <<"D","T","S","T","A","R","T",":","1","9","7","0","0","3","2","9","T","0","2","0","0","0","0">> \o <<LF>> \o
    <<"T","Z","O","F","F","S","E","T","F","R","O","M",":","+","0","1","0","0">> \o <<LF>> \o
    <<"T","Z","O","F","F","S","E","T","T","O",":","+","0","2","0","0">> \o <<LF>> \o
    <<"T","Z","N","A","M","E",":","C","E","S","T">> \o <<LF>> \o
    <<"E","N","D",":","D","A","Y","L","I","G","H","T">> \o <<LF>> \o
    <<"E","N","D",":","V","T","I","M","E","Z","O","N","E">> \o <<LF>>

-----------------------------------------------------------------------------
(* unfold_ics and fold_ics                                                 *)

\* re.sub(r"\r?\n[ \t]", "", text).  A match is a "\n" before a space or a tab,
\* with the "\r" before it if there is one; no two matches overlap, since a
\* match begins with "\r" or "\n" and ends with the space or the tab.
unfold_ics(s) ==
    LET n == Len(s)
        Blank(i) == i >= 1 /\ i <= n /\ s[i] \in {" ", TAB}
        FoldLF(i) == i >= 1 /\ i <= n /\ s[i] = LF /\ Blank(i + 1)
        Kept(i) == ~( FoldLF(i)
                      \/ FoldLF(i - 1)
                      \/ (s[i] = CR /\ FoldLF(i + 1)) )
        kept == Indices(n, {i \in 1..n : Kept(i)})
    IN [k \in 1..Len(kept) |-> s[kept[k]]]

fold_ics(s) == s

-----------------------------------------------------------------------------
(* datetime: the part of the standard library the program uses.  A datetime *)
(* is a record of its six fields; MINYEAR is 1 and MAXYEAR is 9999.         *)

Returned(v, h) == [exc |-> "none", val |-> v, hours |-> h]
Raised(e, h) == [exc |-> e, val |-> <<>>, hours |-> h]
NoCall == [exc |-> "none", val |-> <<>>, hours |-> 0]

IsLeap(y) == (y % 4 = 0) /\ ((y % 100 # 0) \/ (y % 400 = 0))

DaysInMonth(y, m) ==
    IF m = 2 THEN (IF IsLeap(y) THEN 29 ELSE 28)
    ELSE IF m \in {4, 6, 9, 11} THEN 30 ELSE 31

DaysBeforeYear(y) ==
    (y - 1) * 365 + ((y - 1) \div 4) - ((y - 1) \div 100) + ((y - 1) \div 400)

RECURSIVE DaysBeforeMonth(_, _)
DaysBeforeMonth(y, m) ==
    IF m = 1 THEN 0 ELSE DaysBeforeMonth(y, m - 1) + DaysInMonth(y, m - 1)

\* date.toordinal: 1 is the first of January of year 1
toordinal(d) == DaysBeforeYear(d.year) + DaysBeforeMonth(d.year, d.month) + d.day

\* date.weekday: Monday is 0, Sunday is 6
weekday(d) == (toordinal(d) + 6) % 7

\* datetime(year, month, day, hour, minute, second), the arguments in range
datetime(y, m, d, hh, mm, ss) ==
    [year |-> y, month |-> m, day |-> d, hour |-> hh, minute |-> mm, second |-> ss]

\* the range check of the constructor
ValidDate(y, m, d) ==
    y \in 1..9999 /\ m \in 1..12 /\ d \in 1..DaysInMonth(y, m)

\* d - timedelta(days=1), for a date after the first of January of year 1
PrevDay(d) ==
    IF d.day > 1 THEN [d EXCEPT !.day = d.day - 1]
    ELSE IF d.month > 1
         THEN [d EXCEPT !.month = d.month - 1,
                        !.day = DaysInMonth(d.year, d.month - 1)]
    ELSE [d EXCEPT !.year = d.year - 1, !.month = 12, !.day = 31]

\* d + timedelta(days=1); the year may become 10000, which the caller rejects
NextDay(d) ==
    IF d.day < DaysInMonth(d.year, d.month) THEN [d EXCEPT !.day = d.day + 1]
    ELSE IF d.month < 12 THEN [d EXCEPT !.month = d.month + 1, !.day = 1]
    ELSE [d EXCEPT !.year = d.year + 1, !.month = 1, !.day = 1]

\* dt + timedelta(hours=h) for 0 < h < 24, before the range check
PlusHours(dt, h) ==
    IF dt.hour + h < 24 THEN [dt EXCEPT !.hour = dt.hour + h]
    ELSE [NextDay(dt) EXCEPT !.hour = dt.hour + h - 24]

\* a <= b and a < b on datetimes
DtKey(dt) == <<dt.year, dt.month, dt.day, dt.hour, dt.minute, dt.second>>
RECURSIVE SeqLess(_, _)
SeqLess(a, b) ==
    /\ a # <<>>
    /\ \/ Head(a) < Head(b)
       \/ Head(a) = Head(b) /\ SeqLess(Tail(a), Tail(b))
DtLess(a, b) == SeqLess(DtKey(a), DtKey(b))
DtLeq(a, b) == a = b \/ DtLess(a, b)

-----------------------------------------------------------------------------
(* last_sunday and is_dst_europe_amsterdam                                 *)

\* while d.weekday() != 6: d -= timedelta(days=1)
RECURSIVE BackToSunday(_)
BackToSunday(d) == IF weekday(d) = 6 THEN d ELSE BackToSunday(PrevDay(d))

\* datetime(year, month, 31) raises ValueError in a month without a day 31
last_sunday(year, month) ==
    IF ~ValidDate(year, month, 31) THEN Raised("ValueError", 0)
    ELSE Returned(BackToSunday(datetime(year, month, 31, 0, 0, 0)), 0)

\* is_dst_europe_amsterdam with the end of the summer at 02:00 instead of 03:00
is_dst_end_at_two(dt_local) ==
    LET start == [last_sunday(dt_local.year, 3).val
                     EXCEPT !.hour = 2, !.minute = 0, !.second = 0]
        end == [last_sunday(dt_local.year, 10).val
                     EXCEPT !.hour = 2, !.minute = 0, !.second = 0]
    IN DtLeq(start, dt_local) /\ DtLess(dt_local, end)

\* start <= dt_local < end; March and October have 31 days, so that neither
\* call of last_sunday raises
is_dst_europe_amsterdam(dt_local) ==
    LET start == [last_sunday(dt_local.year, 3).val
                     EXCEPT !.hour = 2, !.minute = 0, !.second = 0]
        end == [last_sunday(dt_local.year, 10).val
                     EXCEPT !.hour = 3, !.minute = 0, !.second = 0]
    IN DtLeq(start, dt_local) /\ DtLess(dt_local, end)

-----------------------------------------------------------------------------
(* strptime(value, "%Y%m%dT%H%M%SZ") and strftime("%Y%m%dT%H%M%S")          *)

AllDigits(s) == \A i \in 1..Len(s) : IsDigit(s[i])

RECURSIVE ToInt(_)
ToInt(s) == IF s = <<>> THEN 0 ELSE 10 * ToInt(SubSeq(s, 1, Len(s) - 1)) + DigitVal(s[Len(s)])

\* The directives as the regular expressions strptime compiles them to:
\* %m is 1[0-2]|0[1-9]|[1-9]
MatchesMonth(s) ==
    /\ Len(s) \in {1, 2} /\ AllDigits(s)
    /\ IF Len(s) = 2 THEN ToInt(s) \in 1..12 ELSE ToInt(s) \in 1..9
\* %d is 3[01]|[12]\d|0[1-9]|[1-9]| [1-9]
MatchesDay(s) ==
    \/ Len(s) = 2 /\ AllDigits(s) /\ ToInt(s) \in 1..31
    \/ Len(s) = 1 /\ AllDigits(s) /\ ToInt(s) \in 1..9
    \/ Len(s) = 2 /\ s[1] = " " /\ IsDigit(s[2]) /\ DigitVal(s[2]) \in 1..9
\* %H is 2[0-3]|[0-1]\d|\d
MatchesHour(s) == Len(s) \in {1, 2} /\ AllDigits(s) /\ ToInt(s) \in 0..23
\* %M is [0-5]\d|\d
MatchesMinute(s) == Len(s) \in {1, 2} /\ AllDigits(s) /\ ToInt(s) \in 0..59
\* %S is 6[0-1]|[0-5]\d|\d
MatchesSecond(s) == Len(s) \in {1, 2} /\ AllDigits(s) /\ ToInt(s) \in 0..61

\* The fields of value when the directives take w[1]..w[5] characters
FieldsAt(value, w) ==
    LET a == 5
        b == a + w[1]
        c == b + w[2] + 1
        d == c + w[3]
        e == d + w[4]
    IN [Y |-> SubSeq(value, 1, 4),
        m |-> SubSeq(value, a, b - 1),
        d |-> SubSeq(value, b, c - 2),
        T |-> SubSeq(value, c - 1, c - 1),
        H |-> SubSeq(value, c, d - 1),
        M |-> SubSeq(value, d, e - 1),
        S |-> SubSeq(value, e, e + w[5] - 1),
        Z |-> SubSeq(value, e + w[5], Len(value))]

\* The format matches the whole of value with these widths; the literals are
\* matched without regard to case
MatchesAt(value, w) ==
    /\ Len(value) = 4 + w[1] + w[2] + 1 + w[3] + w[4] + w[5] + 1
    /\ LET f == FieldsAt(value, w)
       IN /\ AllDigits(f.Y)
          /\ MatchesMonth(f.m) /\ MatchesDay(f.d)
          /\ upper(f.T) = <<"T">>
          /\ MatchesHour(f.H) /\ MatchesMinute(f.M) /\ MatchesSecond(f.S)
          /\ upper(f.Z) = <<"Z">>

Widths == [1..5 -> {1, 2}]

\* Of two ways to match, the regular expression takes the one whose earlier
\* directive is the longer
Preferred(w, v) ==
    \E i \in 1..5 : w[i] > v[i] /\ \A j \in 1..(i - 1) : w[j] = v[j]

\* datetime.strptime: ValueError when the format does not match, when the date
\* is not one of the calendar (year 0, 30 February) or the second is 60 or 61
strptime(value) ==
    LET ways == {w \in Widths : MatchesAt(value, w)}
    IN IF ways = {} THEN Raised("ValueError", 0)
       ELSE LET w == CHOOSE x \in ways : \A v \in ways : v = x \/ Preferred(x, v)
                f == FieldsAt(value, w)
                y == ToInt(f.Y)
                mo == ToInt(f.m)
                dd == ToInt(lstrip(f.d, {" "}))
                hh == ToInt(f.H)
                mi == ToInt(f.M)
                ss == ToInt(f.S)
            IN IF ValidDate(y, mo, dd) /\ ss <= 59
               THEN Returned(datetime(y, mo, dd, hh, mi, ss), 0)
               ELSE Raised("ValueError", 0)

\* The decimal digits of n
RECURSIVE ToDigits(_)
ToDigits(n) ==
    IF n < 10 THEN <<Digits[n + 1]>> ELSE ToDigits(n \div 10) \o <<Digits[(n % 10) + 1]>>

\* %m, %d, %H, %M, %S: two digits
Pad2(n) == IF n < 10 THEN <<"0">> \o ToDigits(n) ELSE ToDigits(n)

\* dt.strftime("%Y%m%dT%H%M%S").  %Y is the year in decimal: four digits from
\* the year 1000 on; the C library decides about the padding of earlier years.
strftime(dt) ==
    ToDigits(dt.year) \o Pad2(dt.month) \o Pad2(dt.day) \o <<"T">>
        \o Pad2(dt.hour) \o Pad2(dt.minute) \o Pad2(dt.second)

-----------------------------------------------------------------------------
(* utc_z_to_local_eu_amsterdam                                             *)

\* The outcome carries, as hours, the timedelta of the last addition the
\* function came to: 1 (line 61) or 2 (line 63).  dt_utc + timedelta(hours=1)
\* raises OverflowError when the sum is after the year 9999.
utc_z_to_local_eu_amsterdam(value) ==
    LET parsed == strptime(value)
    IN IF parsed.exc # "none" THEN parsed
       ELSE LET dt_utc == parsed.val
                dt_local == PlusHours(dt_utc, 1)
            IN IF dt_local.year > 9999 THEN Raised("OverflowError", 1)
               ELSE IF is_dst_europe_amsterdam(dt_local)
                    THEN Returned(strftime(PlusHours(dt_utc, 2)), 2)
                    ELSE Returned(strftime(dt_local), 1)

-----------------------------------------------------------------------------
(* The calendar functions, called on their own.                            *)

Years == ((2026 - YearsBack)..2026) \cup {9999}

\* A value of the shape YYYYMMDDTHHMMSSZ from six numbers, in range or not
UtcValue(y, mo, dd, hh, mi, ss) ==
    ToDigits(y) \o Pad2(mo) \o Pad2(dd) \o <<"T">>
        \o Pad2(hh) \o Pad2(mi) \o Pad2(ss) \o <<"Z">>

\* Times of day: every hour at its first and last second, an hour 24, a
\* minute 60 and a second 60
TimesOfDay ==
    {<<hh, 0, 0>> : hh \in 0..24} \cup {<<hh, 59, 59>> : hh \in 0..23}
        \cup {<<0, 60, 0>>, <<0, 0, 60>>}

InitCal ==
    /\ pc = "idle" /\ arg = <<>> /\ ret = NoCall
    /\ text = <<>> /\ lines = <<>> /\ final_text = <<>> /\ run = 0 /\ prev = <<>>

CallLastSunday ==
    /\ pc = "idle"
    /\ \E year \in Years, month \in 1..12 :
          /\ arg' = <<year, month>>
          /\ ret' = last_sunday(year, month)
    /\ pc' = "last_sunday"
    /\ UNCHANGED <<text, lines, final_text, run, prev>>

CallUtcToLocal ==
    /\ pc = "idle"
    /\ \E y \in Years, mo \in 1..13, dd \in 1..32, t \in TimesOfDay :
          /\ arg' = UtcValue(y, mo, dd, t[1], t[2], t[3])
          /\ ret' = utc_z_to_local_eu_amsterdam(arg')
    /\ pc' = "utc_z_to_local"
    /\ UNCHANGED <<text, lines, final_text, run, prev>>

NextCal == CallLastSunday \/ CallUtcToLocal

SpecCal == InitCal /\ [][NextCal]_vars

-----------------------------------------------------------------------------
(* fix_dt_line                                                             *)

DTSTART == <<"D","T","S","T","A","R","T">>
DTEND == <<"D","T","E","N","D">>
VALUE_DATE == <<"V","A","L","U","E","=","D","A","T","E">>
TZID_EQ == <<"T","Z","I","D","=">>

\* str.find for one character, counted from 1: the index of the first c in s,
\* or 0
find(s, c) ==
    IF \E i \in 1..Len(s) : s[i] = c
    THEN CHOOSE i \in 1..Len(s) : s[i] = c /\ \A j \in 1..(i - 1) : s[j] # c
    ELSE 0

\* re.match(r"^(DTSTART|DTEND)([^:]*)\:(.*)$", line): the groups, or no match.
\* [^:]* ends at the first colon; "." matches no line feed and "$" matches at
\* the end or before a line feed that ends the line.
MatchDtLine(line) ==
    LET key == IF startswith(line, DTSTART) THEN DTSTART ELSE DTEND
        rest == SubSeq(line, Len(key) + 1, Len(line))
        colon == find(rest, ":")
        after == SubSeq(rest, colon + 1, Len(rest))
        value == IF endswith(after, <<LF>>) THEN SubSeq(after, 1, Len(after) - 1)
                 ELSE after
    IN IF ~startswith(line, key) \/ colon = 0 \/ find(value, LF) # 0
       THEN [matched |-> FALSE, key |-> <<>>, params |-> <<>>, value |-> <<>>]
       ELSE [matched |-> TRUE, key |-> key,
             params |-> SubSeq(rest, 1, colon - 1), value |-> value]

\* re.fullmatch(r"\d{8}T\d{6}Z", value)
FullMatchUtc(value) ==
    /\ Len(value) = 16
    /\ AllDigits(SubSeq(value, 1, 8))
    /\ value[9] = "T"
    /\ AllDigits(SubSeq(value, 10, 15))
    /\ value[16] = "Z"

\* What follows the match: the conversion of a value in UTC, the TZID
\* parameter, and the line put together again.  An exception of the conversion
\* leaves fix_dt_line.  (CHOOSE r \in {F(x) : x \in {e}} : TRUE is F(e), with e
\* evaluated once.)
Rebuild(key, params, value) ==
    LET withTzid == IF ~contains(params, TZID_EQ)
                    THEN params \o <<";">> \o TZID_EQ \o TZID
                    ELSE params
        Line(conv) == IF conv.exc # "none" THEN conv
                      ELSE Returned(key \o withTzid \o <<":">> \o conv.val, conv.hours)
    IN IF endswith(value, <<"Z">>) /\ FullMatchUtc(value)
       THEN CHOOSE r \in {Line(conv) : conv \in {utc_z_to_local_eu_amsterdam(value)}} : TRUE
       ELSE Line(Returned(value, 0))

fix_dt_line(line) ==
    IF ~(startswith(line, DTSTART) \/ startswith(line, DTEND)) THEN Returned(line, 0)
    ELSE IF contains(line, VALUE_DATE) THEN Returned(line, 0)
    ELSE CHOOSE r \in {IF ~m.matched THEN Returned(line, 0)
                       ELSE Rebuild(m.key, m.params, m.value) :
                       m \in {MatchDtLine(line)}} : TRUE

-----------------------------------------------------------------------------
(* fix_dt_line, called on its own on one line.                             *)

\* Property names: the two the program rewrites, two that begin with them, and two others
LineNames == {
    <<"D","T","S","T","A","R","T">>,
    <<"D","T","E","N","D">>,
    <<"D","T","S","T","A","R","T","E","D">>,
    <<"D","T","E","N","D","X">>,
    <<"S","U","M","M","A","R","Y">>,
    <<"d","t","s","t","a","r","t">> }

\* Parameter strings
LineParams == {
    <<>>,
    <<";","V","A","L","U","E","=","D","A","T","E">>,
    <<";","V","A","L","U","E","=","D","A","T","E","-","T","I","M","E">>,
    <<";","T","Z","I","D","=","E","u","r","o","p","e","/","A","m","s","t","e","r","d","a","m">>,
    <<";","X","-","T","Z","I","D","=","W">>,
    <<";","A","=","B">>,
    <<";","A","=","B",";","T","Z","I","D","=","U","T","C">> }

\* What follows the parameters: a colon and a value (UTC values in and out of range,
\* values of other shapes), or nothing
LineValues == {
    <<":","2","0","2","6","0","3","1","5","T","1","0","0","0","0","0","Z">>,
    <<":","2","0","2","6","0","6","1","5","T","1","0","0","0","0","0","Z">>,
    <<":","2","0","2","6","1","1","0","1","T","1","0","0","0","0","0","Z">>,
    <<":","2","0","2","6","1","0","2","5","T","0","1","0","0","0","0","Z">>,
    <<":","2","0","2","6","0","3","2","9","T","0","0","5","9","5","9","Z">>,
    <<":","2","0","2","6","0","3","2","9","T","0","1","0","0","0","0","Z">>,
    <<":","2","0","2","6","1","2","3","1","T","2","3","3","0","0","0","Z">>,
    <<":","2","0","2","4","0","2","2","9","T","1","2","0","0","0","0","Z">>,
    <<":","2","0","2","6","1","3","0","1","T","1","0","0","0","0","0","Z">>,
    <<":","2","0","2","6","0","3","1","5","T","2","5","0","0","0","0","Z">>,
    <<":","2","0","2","6","0","2","3","0","T","1","2","0","0","0","0","Z">>,
    <<":","2","0","2","6","0","3","1","5","T","1","0","0","0","6","0","Z">>,
    <<":","9","9","9","9","1","2","3","1","T","2","3","0","0","0","0","Z">>,
    <<":","9","9","9","9","1","2","3","1","T","2","2","5","9","5","9","Z">>,
    <<":","2","0","2","6","0","3","1","5","T","1","0","0","0","0","0">>,
    <<":","2","0","2","6","0","3","1","5">>,
    <<":","2","0","2","6","0","3","1","T","1","0","0","0","0","0","Z">>,
    <<":","2","0","2","6","0","3","1","5","T","1","0","0","0","0","0","Z","Z">>,
    <<":","Z">>,
    <<":">>,
    <<>>,
    <<":","a",":","b">>,
    <<":","a",LF>>,
    <<":","a",LF,"b">> }

InitFix ==
    /\ pc = "idle" /\ arg = <<>> /\ ret = NoCall
    /\ text = <<>> /\ lines = <<>> /\ final_text = <<>> /\ run = 0 /\ prev = <<>>

CallFixDtLine ==
    /\ pc = "idle"
    /\ \E n \in LineNames, p \in LineParams, v \in LineValues :
          /\ arg' = n \o p \o v
          /\ ret' = fix_dt_line(arg')
    /\ pc' = "fix_dt_line"
    /\ UNCHANGED <<text, lines, final_text, run, prev>>

NextFix == CallFixDtLine

SpecFix == InitFix /\ [][NextFix]_vars

-----------------------------------------------------------------------------
(* ensure_calendar_x_wr_timezone and ensure_vtimezone                      *)

BEGIN_VCALENDAR == <<"B","E","G","I","N",":","V","C","A","L","E","N","D","A","R">>
BEGIN_VTIMEZONE == <<"B","E","G","I","N",":","V","T","I","M","E","Z","O","N","E">>
X_WR_TIMEZONE == <<"X","-","W","R","-","T","I","M","E","Z","O","N","E",":">>

\* clean = line.lstrip("﻿").strip(); clean.upper() == "BEGIN:VCALENDAR"
IsOpeningMarker(line) == upper(strip(lstrip(line, {BOM}))) = BEGIN_VCALENDAR

\* The loop and the safety net of both functions: item goes after the first
\* opening marker line, or to the front when there is none
InsertAfterMarker(ls, item) ==
    IF \E i \in 1..Len(ls) : IsOpeningMarker(ls[i])
    THEN LET k == CHOOSE i \in 1..Len(ls) :
                    IsOpeningMarker(ls[i]) /\ \A j \in 1..(i - 1) : ~IsOpeningMarker(ls[j])
         IN SubSeq(ls, 1, k) \o <<item>> \o SubSeq(ls, k + 1, Len(ls))
    ELSE <<item>> \o ls

ensure_calendar_x_wr_timezone(ls) ==
    IF \E i \in 1..Len(ls) : startswith(strip(ls[i]), X_WR_TIMEZONE)
    THEN ls
    ELSE InsertAfterMarker(ls, X_WR_TIMEZONE \o TZID)

\* The block goes in as one element of the list: VTIMEZONE_BLOCK.strip()
ensure_vtimezone(ls) ==
    IF \E i \in 1..Len(ls) : strip(ls[i]) = BEGIN_VTIMEZONE
    THEN ls
    ELSE InsertAfterMarker(ls, strip(VTIMEZONE_BLOCK))

-----------------------------------------------------------------------------
(* Documents: at most MaxDocLines lines, each one of PoolLines.            *)

\* An opening marker, one in lower case after a byte-order mark, a closing
\* marker, the two additions already there, an event in UTC, an event already
\* fixed, a line that begins with a space and an event whose month is 13
PoolLines == {
    <<"B","E","G","I","N",":","V","C","A","L","E","N","D","A","R">>,
    <<BOM>> \o <<"b","e","g","i","n",":","v","c","a","l","e","n","d","a","r">>,
    <<"E","N","D",":","V","C","A","L","E","N","D","A","R">>,
    <<"X","-","W","R","-","T","I","M","E","Z","O","N","E",":","E","u","r","o","p","e","/","A","m","s","t","e","r","d","a","m">>,
    <<"B","E","G","I","N",":","V","T","I","M","E","Z","O","N","E">>,
    <<"D","T","S","T","A","R","T",":","2","0","2","6","0","3","1","5","T","1","0","0","0","0","0","Z">>,
    <<"D","T","E","N","D",";","T","Z","I","D","=","E","u","r","o","p","e","/","A","m","s","t","e","r","d","a","m",":","2","0","2","6","0","3","1","5","T","1","1","0","0","0","0">>,
    <<" ","X">>,
    <<"D","T","S","T","A","R","T",":","2","0","2","6","1","3","0","1","T","1","0","0","0","0","0","Z">> }

RECURSIVE SeqsUpTo(_, _)
SeqsUpTo(S, n) ==
    IF n = 0 THEN {<<>>}
    ELSE LET shorter == SeqsUpTo(S, n - 1)
         IN shorter \cup {Append(s, x) : s \in {t \in shorter : Len(t) = n - 1}, x \in S}

Documents == SeqsUpTo(PoolLines, MaxDocLines)

-----------------------------------------------------------------------------
(* The Document Augmenter, run MaxRuns times over one list of lines.  arg   *)
(* keeps the list it was given and prev the result of every run.           *)

InitAug ==
    /\ pc = "idle" /\ arg = <<>> /\ ret = NoCall
    /\ text = <<>> /\ lines = <<>> /\ final_text = <<>> /\ run = 0 /\ prev = <<>>

AugStart ==
    /\ pc = "idle"
    /\ \E ls \in Documents : arg' = ls /\ lines' = ls
    /\ pc' = "aug_header"
    /\ UNCHANGED <<ret, text, final_text, run, prev>>

AugHeader ==
    /\ pc = "aug_header"
    /\ lines' = ensure_calendar_x_wr_timezone(lines)
    /\ pc' = "aug_vtimezone"
    /\ UNCHANGED <<arg, ret, text, final_text, run, prev>>

AugVtimezone ==
    /\ pc = "aug_vtimezone"
    /\ lines' = ensure_vtimezone(lines)
    /\ run' = run + 1
    /\ prev' = Append(prev, lines')
    /\ pc' = IF run' < MaxRuns THEN "aug_header" ELSE "aug_done"
    /\ UNCHANGED <<arg, ret, text, final_text>>

NextAug == AugStart \/ AugHeader \/ AugVtimezone

SpecAug == InitAug /\ [][NextAug]_vars

-----------------------------------------------------------------------------
(* main, from the text of the response to final_text; then main again on    *)
(* the text it built (MaxRuns times in all).  arg keeps the text of the     *)
(* first response and prev the final_text of every run.                    *)

CRLF == <<CR, LF>>

InitMain ==
    /\ pc = "idle" /\ arg = <<>> /\ ret = NoCall
    /\ text = <<>> /\ lines = <<>> /\ final_text = <<>> /\ run = 0 /\ prev = <<>>

\* r = requests.get(...): a document whose lines all end in CRLF, or all in LF
MainGet ==
    /\ pc = "idle"
    /\ \E ls \in Documents, eol \in {CRLF, <<LF>>} :
          text' = join(<<>>, [i \in 1..Len(ls) |-> ls[i] \o eol])
    /\ arg' = text'
    /\ pc' = "unfold"
    /\ UNCHANGED <<ret, lines, final_text, run, prev>>

\* raw = unfold_ics(r.text)
MainUnfold ==
    /\ pc = "unfold"
    /\ text' = unfold_ics(text)
    /\ pc' = "splitlines"
    /\ UNCHANGED <<arg, ret, lines, final_text, run, prev>>

\* lines = raw.splitlines()
MainSplitlines ==
    /\ pc = "splitlines"
    /\ lines' = splitlines(text)
    /\ pc' = "fix"
    /\ UNCHANGED <<arg, ret, text, final_text, run, prev>>

\* fixed = [fix_dt_line(l) for l in lines]; an exception ends the program
MainFix ==
    /\ pc = "fix"
    /\ \E outs \in {[i \in 1..Len(lines) |-> fix_dt_line(lines[i])]} :
          IF \E i \in 1..Len(lines) : outs[i].exc # "none"
          THEN /\ ret' = outs[CHOOSE i \in 1..Len(lines) :
                                 outs[i].exc # "none"
                                 /\ \A j \in 1..(i - 1) : outs[j].exc = "none"]
               /\ pc' = "raised"
               /\ UNCHANGED lines
          ELSE /\ lines' = [i \in 1..Len(lines) |-> outs[i].val]
               /\ pc' = "header"
               /\ UNCHANGED ret
    /\ UNCHANGED <<arg, text, final_text, run, prev>>

\* fixed = ensure_calendar_x_wr_timezone(fixed)
MainHeader ==
    /\ pc = "header"
    /\ lines' = ensure_calendar_x_wr_timezone(lines)
    /\ pc' = "vtimezone"
    /\ UNCHANGED <<arg, ret, text, final_text, run, prev>>

\* fixed = ensure_vtimezone(fixed)
MainVtimezone ==
    /\ pc = "vtimezone"
    /\ lines' = ensure_vtimezone(lines)
    /\ pc' = "join"
    /\ UNCHANGED <<arg, ret, text, final_text, run, prev>>

\* final_text = fold_ics("\r\n".join(fixed) + "\r\n")
MainJoin ==
    /\ pc = "join"
    /\ final_text' = fold_ics(join(CRLF, lines) \o CRLF)
    /\ run' = run + 1
    /\ prev' = Append(prev, final_text')
    /\ pc' = "joined"
    /\ UNCHANGED <<arg, ret, text, lines>>

\* main again, the response being the text the last run built
MainAgain ==
    /\ pc = "joined"
    /\ run < MaxRuns
    /\ text' = final_text
    /\ pc' = "unfold"
    /\ UNCHANGED <<arg, ret, lines, final_text, run, prev>>

NextMain ==
    \/ MainGet \/ MainUnfold \/ MainSplitlines \/ MainFix
    \/ MainHeader \/ MainVtimezone \/ MainJoin \/ MainAgain

SpecMain == InitMain /\ [][NextMain]_vars

-----------------------------------------------------------------------------
(* What the claims speak of: the calendar.                                 *)

\* The last Sunday of a month, by its definition: a Sunday of the month with
\* no Sunday of the month after it
RefLastSunday(y, m) ==
    datetime(y, m,
             CHOOSE d \in 1..DaysInMonth(y, m) :
                 /\ weekday(datetime(y, m, d, 0, 0, 0)) = 6
                 /\ d + 7 > DaysInMonth(y, m),
             0, 0, 0)

AtHour(dt, h) == [dt EXCEPT !.hour = h, !.minute = 0, !.second = 0]

\* The six numbers of a value of the shape YYYYMMDDTHHMMSSZ
UtcFields(value) ==
    datetime(ToInt(SubSeq(value, 1, 4)), ToInt(SubSeq(value, 5, 6)),
             ToInt(SubSeq(value, 7, 8)), ToInt(SubSeq(value, 10, 11)),
             ToInt(SubSeq(value, 12, 13)), ToInt(SubSeq(value, 14, 15)))

\* value is a UTC instant: the shape, and the numbers those of a date and a time
ValidUtcValue(value) ==
    /\ FullMatchUtc(value)
    /\ LET u == UtcFields(value)
       IN /\ ValidDate(u.year, u.month, u.day)
          /\ u.hour <= 23 /\ u.minute <= 59 /\ u.second <= 59

\* The EU rule: summer time from 01:00 UTC on the last Sunday of March until
\* 01:00 UTC on the last Sunday of October
EuRuleHours(u) ==
    IF /\ DtLeq(AtHour(RefLastSunday(u.year, 3), 1), u)
       /\ DtLess(u, AtHour(RefLastSunday(u.year, 10), 1))
    THEN 2 ELSE 1

\* u is in the hour from 01:00 UTC on the last Sunday of October of its year
InOctoberHour(u) ==
    /\ u.month = 10 /\ u.day = RefLastSunday(u.year, 10).day /\ u.hour = 1

\* The rule of the program, in the year y: two hours when UTC+1h is from 02:00
\* on the last Sunday of March until 03:00 on the last Sunday of October
CandidateRuleHours(u, y) ==
    IF /\ DtLeq(AtHour(RefLastSunday(y, 3), 2), PlusHours(u, 1))
       /\ DtLess(PlusHours(u, 1), AtHour(RefLastSunday(y, 10), 3))
    THEN 2 ELSE 1

\* A civil time in the hour that the clocks skip on the last Sunday of March
InSpringGap(dt) ==
    /\ dt.month = 3 /\ dt.day = RefLastSunday(dt.year, 3).day /\ dt.hour = 2

\* C5: for every year and every month 1..12, last_sunday returns the latest
\* Sunday of that month, also in the months with fewer than 31 days.
C5_LastSundayEveryMonth ==
    pc = "last_sunday" =>
        /\ ret.exc = "none"
        /\ ret.val = RefLastSunday(arg[1], arg[2])

\* C10: for every valid UTC instant u the hours that utc_z_to_local_eu_amsterdam
\* adds are those of the EU rule, except in the hour from 01:00 UTC on the last
\* Sunday of October, where it adds two; a civil time it returns is u plus
\* those hours and never in the hour skipped in March; and the rule gives the
\* same hours in the year of u as in the year of UTC+1h.  (In the last hour of
\* the year 9999 the hour it adds is the one of the rule, and the sum is past
\* the last datetime: the function raises OverflowError there.)
C10_OffsetIsEuRuleButOctoberHour ==
    (pc = "utc_z_to_local" /\ ValidUtcValue(arg)) =>
        LET u == UtcFields(arg)
        IN /\ ret.hours = IF InOctoberHour(u) THEN 2 ELSE EuRuleHours(u)
           /\ ret.hours = CandidateRuleHours(u, u.year)
           /\ ret.exc \in {"none", "OverflowError"}
           /\ ret.exc = "OverflowError" => PlusHours(u, 1).year > 9999
           /\ ret.exc = "none" =>
                 /\ ret.val = strftime(PlusHours(u, ret.hours))
                 /\ ~InSpringGap(PlusHours(u, ret.hours))

\* C10, its case: 01:00 UTC on 25 October 2026 has become 03:00
C10_Witness ==
    /\ pc = "utc_z_to_local"
    /\ arg = <<"2","0","2","6","1","0","2","5","T","0","1","0","0","0","0","Z">>
    /\ ret = Returned(<<"2","0","2","6","1","0","2","5","T","0","3","0","0","0","0">>, 2)

-----------------------------------------------------------------------------
(* What the claims speak of: property lines.                               *)

\* A line of a document: no line terminator inside
IsLine(s) == find(s, LF) = 0 /\ find(s, CR) = 0

\* The text before the first ";" or ":" of the line
PropertyName(line) ==
    LET stops == Indices(Len(line), {i \in 1..Len(line) : line[i] \in {";", ":"}})
    IN IF stops = <<>> THEN line ELSE SubSeq(line, 1, stops[1] - 1)

\* NAME[;PARAM...]:VALUE with the name DTSTART or DTEND
IsDtProperty(line) ==
    PropertyName(line) \in {DTSTART, DTEND} /\ find(line, ":") # 0

\* The parameters of a property line, one by one
ParamList(line) ==
    LET from == Len(PropertyName(line)) + 1
        to == find(line, ":") - 1
        semis == Indices(Len(line), {i \in from..to : line[i] = ";"})
    IN [k \in 1..Len(semis) |->
           SubSeq(line, semis[k] + 1,
                  IF k < Len(semis) THEN semis[k + 1] - 1 ELSE to)]

ParamsText(line) == SubSeq(line, Len(PropertyName(line)) + 1, find(line, ":") - 1)
ValueText(line) == SubSeq(line, find(line, ":") + 1, Len(line))

\* How many parameters of the line are TZID parameters
TzidCount(line) ==
    Cardinality({k \in 1..Len(ParamList(line)) : startswith(ParamList(line)[k], TZID_EQ)})

\* The line says VALUE=DATE: a whole day
IsWholeDay(line) ==
    \E k \in 1..Len(ParamList(line)) : ParamList(line)[k] = VALUE_DATE

\* C3: a DTSTART or DTEND property line that fix_dt_line returns and that is
\* not a whole-day line carries exactly one TZID parameter.
C3_ZoneIdentifierExactlyOnce ==
    (pc = "fix_dt_line" /\ IsLine(arg) /\ ret.exc = "none"
        /\ IsDtProperty(ret.val) /\ ~IsWholeDay(ret.val))
    => TzidCount(ret.val) = 1

\* C4: fix_dt_line returns a line for every line and never raises.
C4_FixDtLineTotal ==
    (pc = "fix_dt_line" /\ IsLine(arg)) => ret.exc = "none"

\* C6: a DTSTART or DTEND line without TZID (and not a whole day) whose value
\* is a valid YYYYMMDDTHHMMSSZ comes back with the civil time for the value,
\* without the Z, and with ;TZID=Europe/Amsterdam after its parameters; the
\* civil time is UTC+2h if UTC+1h is from 02:00 on the last Sunday of March
\* until 03:00 on the last Sunday of October of its year, and UTC+1h otherwise.
C6_UtcConversion ==
    (pc = "fix_dt_line" /\ IsLine(arg) /\ IsDtProperty(arg)
        /\ ~contains(ParamsText(arg), TZID_EQ) /\ ~IsWholeDay(arg)
        /\ ValidUtcValue(ValueText(arg)))
    => LET u == UtcFields(ValueText(arg))
           civil == PlusHours(u, CandidateRuleHours(u, PlusHours(u, 1).year))
       IN /\ ret.exc = "none"
          /\ ret.val = PropertyName(arg) \o ParamsText(arg) \o <<";">> \o TZID_EQ
                           \o TZID \o <<":">> \o strftime(civil)

\* C7: a line whose property name is neither DTSTART nor DTEND comes back
\* unchanged.
C7_PassThroughUnrelated ==
    (pc = "fix_dt_line" /\ IsLine(arg) /\ PropertyName(arg) \notin {DTSTART, DTEND})
    => (ret.exc = "none" /\ ret.val = arg)

-----------------------------------------------------------------------------
(* What the claims speak of: documents.                                    *)

HasHeader(ls) == \E i \in 1..Len(ls) : startswith(strip(ls[i]), X_WR_TIMEZONE)
HasBlock(ls) == \E i \in 1..Len(ls) : strip(ls[i]) = BEGIN_VTIMEZONE
HasMarker(ls) == \E i \in 1..Len(ls) : IsOpeningMarker(ls[i])
FirstMarker(ls) ==
    CHOOSE i \in 1..Len(ls) : IsOpeningMarker(ls[i]) /\ \A j \in 1..(i - 1) : ~IsOpeningMarker(ls[j])

\* C2: the augmenter applied to its own result gives that result again.
C2_AugmentTwiceIsOnce ==
    (pc \in {"aug_header", "aug_done"} /\ run >= 2) => prev[2] = prev[1]

\* C9: in a document that lacked both additions, the X-WR-TIMEZONE header is
\* the line after the first opening marker and the block is after the header;
\* without an opening marker both additions are before every original line.
C9_HeaderThenBlock ==
    (run >= 1 /\ pc \in {"aug_header", "aug_done"} /\ ~HasHeader(arg) /\ ~HasBlock(arg))
    => LET r == prev[1]
       IN IF HasMarker(arg)
          THEN /\ r[FirstMarker(r) + 1] = X_WR_TIMEZONE \o TZID
               /\ \E j \in (FirstMarker(r) + 2)..Len(r) : r[j] = strip(VTIMEZONE_BLOCK)
          ELSE /\ {r[1], r[2]} = {X_WR_TIMEZONE \o TZID, strip(VTIMEZONE_BLOCK)}
               /\ SubSeq(r, 3, Len(r)) = arg

\* C1: main run on the text it built returns that text, but for the line
\* endings, which all become CRLF.
C1_RoundTrip ==
    (pc = "joined" /\ run >= 2)
    => final_text = join(CRLF, splitlines(prev[1])) \o CRLF

\* C8: in the text main builds every line ends in CRLF: the text ends in CRLF
\* and has no line feed without a carriage return before it.
C8_EveryLineEndsInCRLF ==
    pc = "joined" =>
        /\ endswith(final_text, CRLF)
        /\ \A i \in 1..Len(final_text) :
              final_text[i] = LF => (i > 1 /\ final_text[i - 1] = CR)

-----------------------------------------------------------------------------
(* What holds of the program next to the failures above.                   *)

\* In a month with 31 days last_sunday returns the last Sunday.
LastSundayOfLongMonth ==
    (pc = "last_sunday" /\ DaysInMonth(arg[1], arg[2]) = 31)
    => ret = Returned(RefLastSunday(arg[1], arg[2]), 0)

\* fix_dt_line raises only on a value of the shape YYYYMMDDTHHMMSSZ that is no
\* UTC instant or is in the last hour of the year 9999.
RaisesOnlyOnUtcShape ==
    (pc = "fix_dt_line" /\ IsLine(arg) /\ ret.exc # "none")
    => /\ startswith(arg, DTSTART) \/ startswith(arg, DTEND)
       /\ FullMatchUtc(ValueText(arg))
       /\ IF ValidUtcValue(ValueText(arg))
          THEN ret.exc = "OverflowError" /\ PlusHours(UtcFields(ValueText(arg)), 1).year > 9999
          ELSE ret.exc = "ValueError"

\* The conversion of C6 on the lines that do not hold the text VALUE=DATE and
\* whose value is before the last hour of the year 9999.
UtcConversionElsewhere ==
    (pc = "fix_dt_line" /\ IsLine(arg) /\ IsDtProperty(arg)
        /\ ~contains(ParamsText(arg), TZID_EQ) /\ ~contains(arg, VALUE_DATE)
        /\ ValidUtcValue(ValueText(arg))
        /\ PlusHours(UtcFields(ValueText(arg)), 1).year <= 9999)
    => LET u == UtcFields(ValueText(arg))
           civil == PlusHours(u, CandidateRuleHours(u, PlusHours(u, 1).year))
       IN ret = Returned(PropertyName(arg) \o ParamsText(arg) \o <<";">> \o TZID_EQ
                             \o TZID \o <<":">> \o strftime(civil),
                         CandidateRuleHours(u, PlusHours(u, 1).year))

\* A line that begins with neither DTSTART nor DTEND comes back unchanged.
PassThroughOtherPrefix ==
    (pc = "fix_dt_line" /\ ~startswith(arg, DTSTART) /\ ~startswith(arg, DTEND))
    => ret = Returned(arg, 0)

\* After the augmenter the block is the line after the first opening marker
\* and the header the line after the block; without a marker the block is the
\* first line and the header the second.
BlockThenHeader ==
    (run >= 1 /\ pc \in {"aug_header", "aug_done"} /\ ~HasHeader(arg) /\ ~HasBlock(arg))
    => LET r == prev[1]
           k == IF HasMarker(arg) THEN FirstMarker(arg) ELSE 0
       IN r = SubSeq(arg, 1, k) \o <<strip(VTIMEZONE_BLOCK), X_WR_TIMEZONE \o TZID>>
                  \o SubSeq(arg, k + 1, Len(arg))

\* main changes nothing in a text it built but the DTSTART lines of a block it
\* inserted, unless a line of the text begins with a space or a tab.
RoundTripButForBlockAnchors ==
    (pc = "joined" /\ run >= 2)
    => LET before == splitlines(prev[1])
           after == splitlines(final_text)
       IN (\A i \in 1..Len(before) : before[i] = <<>> \/ before[i][1] \notin {" ", TAB})
          => /\ Len(after) = Len(before)
             /\ \A i \in 1..Len(before) :
                   after[i] # before[i] =>
                       /\ startswith(before[i], DTSTART \o <<":", "1", "9", "7", "0">>)
                       /\ after[i] = fix_dt_line(before[i]).val

====
